---- MODULE Spec2Model ----
(***************************************************************************)
(* add_widget_target.py: one-shot text patching of project.pbxproj.  The   *)
(* script reads the file into `content`, applies seventeen str.replace     *)
(* calls (steps 1-14; step 7 holds two and step 9 three), writes `content` *)
(* back over the file and prints a confirmation line.                      *)
(*                                                                         *)
(* Text is a sequence of symbols.  The symbols are the pieces the source   *)
(* builds its strings from: an interpolated identifier ({ID_X}) is one     *)
(* symbol, the line terminator is one symbol (NL), and the literal text in *)
(* between is cut at line ends.  Two refinements keep matching on symbols  *)
(* equal to matching on characters for the documents considered: a section *)
(* marker is "/", its inner text, "/" (two markers sharing a "/" can then  *)
(* overlap, as they can in a string), and the two tabs in front of an      *)
(* identifier are a symbol apart from deeper indentation.  Len of a symbol *)
(* is its length in characters, so ByteLen is the length of the string.    *)
(***************************************************************************)
EXTENDS Integers, Sequences, FiniteSets, TLC

VARIABLES
  file,     \* text stored at PBXPROJ_PATH
  content,  \* the script's variable `content`
  pc,       \* position of the current invocation
  i,        \* index (1..NSteps) of the next substitution while pc = "patch"
  order,    \* order[i] is the step run at index i (WrittenOrder in the script)
  stdout,   \* lines printed on standard output, all invocations
  stderr,   \* uncaught exceptions reported by the interpreter
  run,      \* number of invocations started
  hist,     \* history: hist[r] is the file when invocation r started
  found,    \* history: steps whose search text occurred when they ran
  relied    \* history: steps whose search text occurred more often when they
            \* ran than in hist[run] (they matched text an earlier step inserted)

vars == <<file, content, pc, i, order, stdout, stderr, run, hist, found, relied>>

NL == "\n"

Marker(inner) == <<"/", inner, "/">>

ID_TARGET == "DC9A30012F40A10100AABB01"

ID_PRODUCT_REF == "DC9A30022F40A10100AABB02"

ID_SYNC_GROUP == "DC9A30032F40A10100AABB03"

ID_FRAMEWORKS == "DC9A30042F40A10100AABB04"

ID_SOURCES == "DC9A30052F40A10100AABB05"

ID_RESOURCES == "DC9A30062F40A10100AABB06"

ID_EMBED_PHASE == "DC9A30072F40A10100AABB07"

ID_PROXY == "DC9A30082F40A10100AABB08"

ID_DEPENDENCY == "DC9A30092F40A10100AABB09"

ID_CFG_DEBUG == "DC9A300A2F40A10100AABB0A"

ID_CFG_RELEASE == "DC9A300B2F40A10100AABB0B"

\* a slip: the identifier of the Release configuration used twice
ID_CFG_LIST_dup == "DC9A300B2F40A10100AABB0B"

ID_CFG_LIST == "DC9A300C2F40A10100AABB0C"

ID_EMBED_FILE == "DC9A300D2F40A10100AABB0D"

ID_PROJECT == "DC4A07602F3DA21800717C38"

ID_APP_TARGET == "DC4A07672F3DA21800717C38"

ID_PRODUCTS == "DC4A07692F3DA21800717C38"

ID_MAIN_GROUP == "DC4A075F2F3DA21800717C38"

build_file_entry ==
  << "\t\t", ID_EMBED_FILE, " /* EhDownloadWidget.appex in Embed Foundation Extensions */ = {isa = PBXBuildFile; fileRef = ", ID_PRODUCT_REF, " /* EhDownloadWidget.appex */; settings = {ATTRIBUTES = (RemoveHeadersOnCopy, ); }; };", NL >>

proxy_entry ==
  << "\t\t", ID_PROXY, " /* PBXContainerItemProxy */ = {", NL,
     "\t\t\tisa = PBXContainerItemProxy;", NL,
     "\t\t\tcontainerPortal = ", ID_PROJECT, " /* Project object */;", NL,
     "\t\t\tproxyType = 1;", NL,
     "\t\t\tremoteGlobalIDString = ", ID_TARGET, ";", NL,
     "\t\t\tremoteInfo = EhDownloadWidget;", NL,
     "\t\t};", NL >>

\* a slip: the new section closed with the marker of the next section
copy_phase_wrong_end ==
  << "/", "* Begin PBXCopyFilesBuildPhase section *", "/", NL,
     "\t\t", ID_EMBED_PHASE, " /* Embed Foundation Extensions */ = {", NL,
     "\t\t\tisa = PBXCopyFilesBuildPhase;", NL,
     "\t\t\tbuildActionMask = 2147483647;", NL,
     "\t\t\tdstPath = \"\";", NL,
     "\t\t\tdstSubfolderSpec = 13;", NL,
     "\t\t\tfiles = (", NL,
     "\t\t", "\t\t", ID_EMBED_FILE, " /* EhDownloadWidget.appex in Embed Foundation Extensions */,", NL,
     "\t\t\t);", NL,
     "\t\t\tname = \"Embed Foundation Extensions\";", NL,
     "\t\t\trunOnlyForDeploymentPostprocessing = 0;", NL,
     "\t\t};", NL,
     "/", "* End PBXFileReference section *", "/", NL,
     NL >>

copy_phase ==
  << "/", "* Begin PBXCopyFilesBuildPhase section *", "/", NL,
     "\t\t", ID_EMBED_PHASE, " /* Embed Foundation Extensions */ = {", NL,
     "\t\t\tisa = PBXCopyFilesBuildPhase;", NL,
     "\t\t\tbuildActionMask = 2147483647;", NL,
     "\t\t\tdstPath = \"\";", NL,
     "\t\t\tdstSubfolderSpec = 13;", NL,
     "\t\t\tfiles = (", NL,
     "\t\t", "\t\t", ID_EMBED_FILE, " /* EhDownloadWidget.appex in Embed Foundation Extensions */,", NL,
     "\t\t\t);", NL,
     "\t\t\tname = \"Embed Foundation Extensions\";", NL,
     "\t\t\trunOnlyForDeploymentPostprocessing = 0;", NL,
     "\t\t};", NL,
     "/", "* End PBXCopyFilesBuildPhase section *", "/", NL,
     NL >>

file_ref ==
  << "\t\t", ID_PRODUCT_REF, " /* EhDownloadWidget.appex */ = {isa = PBXFileReference; explicitFileType = \"wrapper.app-extension\"; includeInIndex = 0; path = EhDownloadWidget.appex; sourceTree = BUILT_PRODUCTS_DIR; };", NL >>

sync_group ==
  << "\t\t", ID_SYNC_GROUP, " /* EhDownloadWidget */ = {", NL,
     "\t\t\tisa = PBXFileSystemSynchronizedRootGroup;", NL,
     "\t\t\texceptions = (", NL,
     "\t\t\t);", NL,
     "\t\t\tpath = EhDownloadWidget;", NL,
     "\t\t\tsourceTree = \"<group>\";", NL,
     "\t\t};", NL >>

fw_phase ==
  << "\t\t", ID_FRAMEWORKS, " /* Frameworks */ = {", NL,
     "\t\t\tisa = PBXFrameworksBuildPhase;", NL,
     "\t\t\tbuildActionMask = 2147483647;", NL,
     "\t\t\tfiles = (", NL,
     "\t\t\t);", NL,
     "\t\t\trunOnlyForDeploymentPostprocessing = 0;", NL,
     "\t\t};", NL >>

old_products ==
  << "\t\t", ID_PRODUCTS, " /* Products */ = {", NL,
     "\t\t\tisa = PBXGroup;", NL,
     "\t\t\tchildren = (", NL,
     "\t\t\t\tDC4A07682F3DA21800717C38 /* ehviewer apple.app */,", NL,
     "\t\t\t\tDC4A07792F3DA21800717C38 /* ehviewer appleTests.xctest */,", NL,
     "\t\t\t\tDC4A07832F3DA21800717C38 /* ehviewer appleUITests.xctest */,", NL,
     "\t\t\t);" >>

\* a slip: the new child put first and an existing child dropped
new_products_prepended ==
  << "\t\t", ID_PRODUCTS, " /* Products */ = {", NL,
     "\t\t\tisa = PBXGroup;", NL,
     "\t\t\tchildren = (", NL,
     "\t\t", "\t\t", ID_PRODUCT_REF, " /* EhDownloadWidget.appex */,", NL,
     "\t\t\t\tDC4A07682F3DA21800717C38 /* ehviewer apple.app */,", NL,
     "\t\t\t\tDC4A07792F3DA21800717C38 /* ehviewer appleTests.xctest */,", NL,
     "\t\t\t);" >>

new_products ==
  << "\t\t", ID_PRODUCTS, " /* Products */ = {", NL,
     "\t\t\tisa = PBXGroup;", NL,
     "\t\t\tchildren = (", NL,
     "\t\t\t\tDC4A07682F3DA21800717C38 /* ehviewer apple.app */,", NL,
     "\t\t\t\tDC4A07792F3DA21800717C38 /* ehviewer appleTests.xctest */,", NL,
     "\t\t\t\tDC4A07832F3DA21800717C38 /* ehviewer appleUITests.xctest */,", NL,
     "\t\t", "\t\t", ID_PRODUCT_REF, " /* EhDownloadWidget.appex */,", NL,
     "\t\t\t);" >>

old_root ==
  << "\t\t", ID_MAIN_GROUP, " = {", NL,
     "\t\t\tisa = PBXGroup;", NL,
     "\t\t\tchildren = (", NL,
     "\t\t\t\tDC4A076A2F3DA21800717C38 /* ehviewer apple */,", NL,
     "\t\t\t\tDC4A07862F3DA21800717C38 /* ehviewer appleUITests */,", NL,
     "\t\t", "\t\t", ID_PRODUCTS, " /* Products */,", NL,
     "\t\t\t);" >>

\* a slip: the new child appended after the block instead of inside the list
new_root_appended ==
  old_root \o << NL, "\t\t", "\t\t", ID_SYNC_GROUP, " /* EhDownloadWidget */," >>

new_root ==
  << "\t\t", ID_MAIN_GROUP, " = {", NL,
     "\t\t\tisa = PBXGroup;", NL,
     "\t\t\tchildren = (", NL,
     "\t\t\t\tDC4A076A2F3DA21800717C38 /* ehviewer apple */,", NL,
     "\t\t", "\t\t", ID_SYNC_GROUP, " /* EhDownloadWidget */,", NL,
     "\t\t\t\tDC4A07862F3DA21800717C38 /* ehviewer appleUITests */,", NL,
     "\t\t", "\t\t", ID_PRODUCTS, " /* Products */,", NL,
     "\t\t\t);" >>

native_target ==
  << "\t\t", ID_TARGET, " /* EhDownloadWidget */ = {", NL,
     "\t\t\tisa = PBXNativeTarget;", NL,
     "\t\t\tbuildConfigurationList = ", ID_CFG_LIST, " /* Build configuration list for PBXNativeTarget \"EhDownloadWidget\" */;", NL,
     "\t\t\tbuildPhases = (", NL,
     "\t\t", "\t\t", ID_SOURCES, " /* Sources */,", NL,
     "\t\t", "\t\t", ID_FRAMEWORKS, " /* Frameworks */,", NL,
     "\t\t", "\t\t", ID_RESOURCES, " /* Resources */,", NL,
     "\t\t\t);", NL,
     "\t\t\tbuildRules = (", NL,
     "\t\t\t);", NL,
     "\t\t\tdependencies = (", NL,
     "\t\t\t);", NL,
     "\t\t\tfileSystemSynchronizedGroups = (", NL,
     "\t\t", "\t\t", ID_SYNC_GROUP, " /* EhDownloadWidget */,", NL,
     "\t\t\t);", NL,
     "\t\t\tname = EhDownloadWidget;", NL,
     "\t\t\tpackageProductDependencies = (", NL,
     "\t\t\t);", NL,
     "\t\t\tproductName = EhDownloadWidget;", NL,
     "\t\t\tproductReference = ", ID_PRODUCT_REF, " /* EhDownloadWidget.appex */;", NL,
     "\t\t\tproductType = \"com.apple.product-type.app-extension\";", NL,
     "\t\t};", NL >>

old_targets ==
  << "\t\t\ttargets = (", NL,
     "\t\t", "\t\t", ID_APP_TARGET, " /* ehviewer apple */,", NL,
     "\t\t\t\tDC4A07782F3DA21800717C38 /* ehviewer appleTests */,", NL,
     "\t\t\t\tDC4A07822F3DA21800717C38 /* ehviewer appleUITests */,", NL,
     "\t\t\t);" >>

new_targets ==
  << "\t\t\ttargets = (", NL,
     "\t\t", "\t\t", ID_APP_TARGET, " /* ehviewer apple */,", NL,
     "\t\t\t\tDC4A07782F3DA21800717C38 /* ehviewer appleTests */,", NL,
     "\t\t\t\tDC4A07822F3DA21800717C38 /* ehviewer appleUITests */,", NL,
     "\t\t", "\t\t", ID_TARGET, " /* EhDownloadWidget */,", NL,
     "\t\t\t);" >>

old_attrs ==
  << "\t\t\t", "\t\t", ID_APP_TARGET, " = {", NL,
     "\t\t\t\t\t\tCreatedOnToolsVersion = 26.2;", NL,
     "\t\t\t\t\t};" >>

new_attrs ==
  << "\t\t\t", "\t\t", ID_APP_TARGET, " = {", NL,
     "\t\t\t\t\t\tCreatedOnToolsVersion = 26.2;", NL,
     "\t\t\t\t\t};", NL,
     "\t\t\t", "\t\t", ID_TARGET, " = {", NL,
     "\t\t\t\t\t\tCreatedOnToolsVersion = 26.2;", NL,
     "\t\t\t\t\t};" >>

old_app_phases ==
  << "\t\t", ID_APP_TARGET, " /* ehviewer apple */ = {", NL,
     "\t\t\tisa = PBXNativeTarget;", NL,
     "\t\t\tbuildConfigurationList = DC4A078C2F3DA21800717C38 /* Build configuration list for PBXNativeTarget \"ehviewer apple\" */;", NL,
     "\t\t\tbuildPhases = (", NL,
     "\t\t\t\tDC4A07642F3DA21800717C38 /* Sources */,", NL,
     "\t\t\t\tDC4A07652F3DA21800717C38 /* Frameworks */,", NL,
     "\t\t\t\tDC4A07662F3DA21800717C38 /* Resources */,", NL,
     "\t\t\t);", NL,
     "\t\t\tbuildRules = (", NL,
     "\t\t\t);", NL,
     "\t\t\tdependencies = (", NL,
     "\t\t\t);" >>

new_app_phases ==
  << "\t\t", ID_APP_TARGET, " /* ehviewer apple */ = {", NL,
     "\t\t\tisa = PBXNativeTarget;", NL,
     "\t\t\tbuildConfigurationList = DC4A078C2F3DA21800717C38 /* Build configuration list for PBXNativeTarget \"ehviewer apple\" */;", NL,
     "\t\t\tbuildPhases = (", NL,
     "\t\t\t\tDC4A07642F3DA21800717C38 /* Sources */,", NL,
     "\t\t\t\tDC4A07652F3DA21800717C38 /* Frameworks */,", NL,
     "\t\t\t\tDC4A07662F3DA21800717C38 /* Resources */,", NL,
     "\t\t", "\t\t", ID_EMBED_PHASE, " /* Embed Foundation Extensions */,", NL,
     "\t\t\t);", NL,
     "\t\t\tbuildRules = (", NL,
     "\t\t\t);", NL,
     "\t\t\tdependencies = (", NL,
     "\t\t", "\t\t", ID_DEPENDENCY, " /* PBXTargetDependency */,", NL,
     "\t\t\t);" >>

res_phase ==
  << "\t\t", ID_RESOURCES, " /* Resources */ = {", NL,
     "\t\t\tisa = PBXResourcesBuildPhase;", NL,
     "\t\t\tbuildActionMask = 2147483647;", NL,
     "\t\t\tfiles = (", NL,
     "\t\t\t);", NL,
     "\t\t\trunOnlyForDeploymentPostprocessing = 0;", NL,
     "\t\t};", NL >>

src_phase ==
  << "\t\t", ID_SOURCES, " /* Sources */ = {", NL,
     "\t\t\tisa = PBXSourcesBuildPhase;", NL,
     "\t\t\tbuildActionMask = 2147483647;", NL,
     "\t\t\tfiles = (", NL,
     "\t\t\t);", NL,
     "\t\t\trunOnlyForDeploymentPostprocessing = 0;", NL,
     "\t\t};", NL >>

dep_entry ==
  << "\t\t", ID_DEPENDENCY, " /* PBXTargetDependency */ = {", NL,
     "\t\t\tisa = PBXTargetDependency;", NL,
     "\t\t\ttarget = ", ID_TARGET, " /* EhDownloadWidget */;", NL,
     "\t\t\ttargetProxy = ", ID_PROXY, " /* PBXContainerItemProxy */;", NL,
     "\t\t};", NL >>

cfg_debug ==
  << "\t\t", ID_CFG_DEBUG, " /* Debug */ = {", NL,
     "\t\t\tisa = XCBuildConfiguration;", NL,
     "\t\t\tbuildSettings = {", NL,
     "\t\t\t\tASSTCALOG_COMPILER_GLOBAL_ACCENT_COLOR_NAME = AccentColor;", NL,
     "\t\t\t\tCODE_SIGN_STYLE = Automatic;", NL,
     "\t\t\t\tCURRENT_PROJECT_VERSION = 1;", NL,
     "\t\t\t\tDEVELOPMENT_TEAM = HWZEUNLCY6;", NL,
     "\t\t\t\tGENERATE_INFOPLIST_FILE = YES;", NL,
     "\t\t\t\tINFOPLIST_FILE = EhDownloadWidget/Info.plist;", NL,
     "\t\t\t\tINFOPLIST_KEY_CFBundleDisplayName = EhDownloadWidget;", NL,
     "\t\t\t\tINFOPLIST_KEY_NSHumanReadableCopyright = \"\";", NL,
     "\t\t\t\tIPHONEOS_DEPLOYMENT_TARGET = 18.0;", NL,
     "\t\t\t\tLD_RUNPATH_SEARCH_PATHS = (", NL,
     "\t\t\t\t\t\"$(inherited)\",", NL,
     "\t\t\t\t\t\"@executable_path/Frameworks\",", NL,
     "\t\t\t\t\t\"@executable_path/../../Frameworks\",", NL,
     "\t\t\t\t);", NL,
     "\t\t\t\tMARKETING_VERSION = 1.2.0;", NL,
     "\t\t\t\tPRODUCT_BUNDLE_IDENTIFIER = \"Stellatrix.ehviewer-apple.EhDownloadWidget\";", NL,
     "\t\t\t\tPRODUCT_NAME = \"$(TARGET_NAME)\";", NL,
     "\t\t\t\tSDKROOT = iphoneos;", NL,
     "\t\t\t\tSKIP_INSTALL = YES;", NL,
     "\t\t\t\tSTRING_CATALOG_GENERATE_SYMBOLS = YES;", NL,
     "\t\t\t\tSUPPORTED_PLATFORMS = \"iphoneos iphonesimulator\";", NL,
     "\t\t\t\tSWIFT_APPROACHABLE_CONCURRENCY = YES;", NL,
     "\t\t\t\tSWIFT_EMIT_LOC_STRINGS = YES;", NL,
     "\t\t\t\tSWIFT_VERSION = 5.0;", NL,
     "\t\t\t\tTARGETED_DEVICE_FAMILY = \"1,2\";", NL,
     "\t\t\t};", NL,
     "\t\t\tname = Debug;", NL,
     "\t\t};", NL >>

cfg_release ==
  << "\t\t", ID_CFG_RELEASE, " /* Release */ = {", NL,
     "\t\t\tisa = XCBuildConfiguration;", NL,
     "\t\t\tbuildSettings = {", NL,
     "\t\t\t\tASSTCALOG_COMPILER_GLOBAL_ACCENT_COLOR_NAME = AccentColor;", NL,
     "\t\t\t\tCODE_SIGN_STYLE = Automatic;", NL,
     "\t\t\t\tCURRENT_PROJECT_VERSION = 1;", NL,
     "\t\t\t\tDEVELOPMENT_TEAM = HWZEUNLCY6;", NL,
     "\t\t\t\tGENERATE_INFOPLIST_FILE = YES;", NL,
     "\t\t\t\tINFOPLIST_FILE = EhDownloadWidget/Info.plist;", NL,
     "\t\t\t\tINFOPLIST_KEY_CFBundleDisplayName = EhDownloadWidget;", NL,
     "\t\t\t\tINFOPLIST_KEY_NSHumanReadableCopyright = \"\";", NL,
     "\t\t\t\tIPHONEOS_DEPLOYMENT_TARGET = 18.0;", NL,
     "\t\t\t\tLD_RUNPATH_SEARCH_PATHS = (", NL,
     "\t\t\t\t\t\"$(inherited)\",", NL,
     "\t\t\t\t\t\"@executable_path/Frameworks\",", NL,
     "\t\t\t\t\t\"@executable_path/../../Frameworks\",", NL,
     "\t\t\t\t);", NL,
     "\t\t\t\tMARKETING_VERSION = 1.2.0;", NL,
     "\t\t\t\tPRODUCT_BUNDLE_IDENTIFIER = \"Stellatrix.ehviewer-apple.EhDownloadWidget\";", NL,
     "\t\t\t\tPRODUCT_NAME = \"$(TARGET_NAME)\";", NL,
     "\t\t\t\tSDKROOT = iphoneos;", NL,
     "\t\t\t\tSKIP_INSTALL = YES;", NL,
     "\t\t\t\tSTRING_CATALOG_GENERATE_SYMBOLS = YES;", NL,
     "\t\t\t\tSUPPORTED_PLATFORMS = \"iphoneos iphonesimulator\";", NL,
     "\t\t\t\tSWIFT_APPROACHABLE_CONCURRENCY = YES;", NL,
     "\t\t\t\tSWIFT_EMIT_LOC_STRINGS = YES;", NL,
     "\t\t\t\tSWIFT_VERSION = 5.0;", NL,
     "\t\t\t\tTARGETED_DEVICE_FAMILY = \"1,2\";", NL,
     "\t\t\t};", NL,
     "\t\t\tname = Release;", NL,
     "\t\t};", NL >>

cfg_list ==
  << "\t\t", ID_CFG_LIST, " /* Build configuration list for PBXNativeTarget \"EhDownloadWidget\" */ = {", NL,
     "\t\t\tisa = XCConfigurationList;", NL,
     "\t\t\tbuildConfigurations = (", NL,
     "\t\t", "\t\t", ID_CFG_DEBUG, " /* Debug */,", NL,
     "\t\t", "\t\t", ID_CFG_RELEASE, " /* Release */,", NL,
     "\t\t\t);", NL,
     "\t\t\tdefaultConfigurationIsVisible = 0;", NL,
     "\t\t\tdefaultConfigurationName = Release;", NL,
     "\t\t};", NL >>

(***************************************************************************)
(* str.count and str.replace: occurrences are taken leftmost first and do  *)
(* not overlap.  No search text of the script is empty.                    *)
(***************************************************************************)
MatchAt(doc, old, p) ==
  /\ p + Len(old) - 1 <= Len(doc)
  /\ doc[p] = old[1]
  /\ SubSeq(doc, p, p + Len(old) - 1) = old

Starts(doc, old) == {p \in 1..Len(doc) : MatchAt(doc, old, p)}

Least(S) == CHOOSE p \in S : \A q \in S : p <= q

RECURSIVE Leftmost(_, _, _)
Leftmost(S, m, from) ==
  LET T == {p \in S : p >= from}
  IN  IF T = {} THEN <<>>
      ELSE <<Least(T)>> \o Leftmost(S, m, Least(T) + m)

Occurrences(doc, old) == Leftmost(Starts(doc, old), Len(old), 1)

str_count(doc, old) == Len(Occurrences(doc, old))

RECURSIVE Splice(_, _, _, _, _, _)
\* a slip: the rest of the document resumes one symbol early
RECURSIVE SpliceOffByOne(_, _, _, _, _, _)
SpliceOffByOne(doc, occ, m, new, k, from) ==
  IF k > Len(occ) THEN SubSeq(doc, from, Len(doc))
  ELSE SubSeq(doc, from, occ[k] - 1) \o new
         \o SpliceOffByOne(doc, occ, m, new, k + 1, occ[k] + m - 1)

Splice(doc, occ, m, new, k, from) ==
  IF k > Len(occ) THEN SubSeq(doc, from, Len(doc))
  ELSE SubSeq(doc, from, occ[k] - 1) \o new
         \o Splice(doc, occ, m, new, k + 1, occ[k] + m)

str_replace(doc, old, new) ==
  Splice(doc, Occurrences(doc, old), Len(old), new, 1, 1)

\* len(text): the characters of the symbols in doc[a..b], halving the range
RECURSIVE RangeLen(_, _, _)
RangeLen(doc, a, b) ==
  IF a > b THEN 0
  ELSE IF a = b THEN Len(doc[a])
  ELSE RangeLen(doc, a, (a + b) \div 2) + RangeLen(doc, (a + b) \div 2 + 1, b)

ByteLen(doc) == RangeLen(doc, 1, Len(doc))

(***************************************************************************)
(* The seventeen content.replace(old, new) calls, in the written order.    *)
(***************************************************************************)
EndBuildFile == Marker("* End PBXBuildFile section *")
EndContainerItemProxy == Marker("* End PBXContainerItemProxy section *")
BeginFileReference == Marker("* Begin PBXFileReference section *")
EndFileReference == Marker("* End PBXFileReference section *")
EndSynchronizedRootGroup == Marker("* End PBXFileSystemSynchronizedRootGroup section *")
EndFrameworksBuildPhase == Marker("* End PBXFrameworksBuildPhase section *")
EndNativeTarget == Marker("* End PBXNativeTarget section *")
EndResourcesBuildPhase == Marker("* End PBXResourcesBuildPhase section *")
EndSourcesBuildPhase == Marker("* End PBXSourcesBuildPhase section *")
EndTargetDependency == Marker("* End PBXTargetDependency section *")
EndBuildConfiguration == Marker("* End XCBuildConfiguration section *")
EndConfigurationList == Marker("* End XCConfigurationList section *")

Steps ==
  << [old |-> EndBuildFile,             new |-> build_file_entry \o EndBuildFile],
     [old |-> EndContainerItemProxy,    new |-> proxy_entry \o EndContainerItemProxy],
     [old |-> BeginFileReference,       new |-> copy_phase \o BeginFileReference],
     [old |-> EndFileReference,         new |-> file_ref \o EndFileReference],
     [old |-> EndSynchronizedRootGroup, new |-> sync_group \o EndSynchronizedRootGroup],
     [old |-> EndFrameworksBuildPhase,  new |-> fw_phase \o EndFrameworksBuildPhase],
     [old |-> old_products,             new |-> new_products],
     [old |-> old_root,                 new |-> new_root],
     [old |-> EndNativeTarget,          new |-> native_target \o EndNativeTarget],
     [old |-> old_targets,              new |-> new_targets],
     [old |-> old_attrs,                new |-> new_attrs],
     [old |-> old_app_phases,           new |-> new_app_phases],
     [old |-> EndResourcesBuildPhase,   new |-> res_phase \o EndResourcesBuildPhase],
     [old |-> EndSourcesBuildPhase,     new |-> src_phase \o EndSourcesBuildPhase],
     [old |-> EndTargetDependency,      new |-> dep_entry \o EndTargetDependency],
     [old |-> EndBuildConfiguration,    new |-> cfg_debug \o cfg_release \o EndBuildConfiguration],
     [old |-> EndConfigurationList,     new |-> cfg_list \o EndConfigurationList] >>

NSteps == Len(Steps)

StepIds == 1..NSteps

WrittenOrder == [k \in StepIds |-> k]

\* the whole-block replacements (steps 7 and 9) and the marker insertions
ReplaceSteps == {7, 8, 10, 11, 12}

InsertSteps == StepIds \ ReplaceSteps

SuccessLine == "Successfully added EhDownloadWidget extension target to project.pbxproj"

(***************************************************************************)
(* Input documents.  Fixture(D) is a minimal descriptor: the thirteen      *)
(* sections in the order Xcode writes them, holding the records the five   *)
(* whole-block replacements look for.  D is a set of deviations from the   *)
(* plain fixture, in which every search text occurs exactly once.          *)
(***************************************************************************)
MaxDeviations == 1

MaxRuns == 2

MaxPartial == 2

Missing(k) == [kind |-> "missing", step |-> k]

Twice(k) == [kind |-> "twice", step |-> k]

\* fw_phase (step 6) is already in the document
Preexisting == [kind |-> "preexisting", step |-> 6]

\* the markers of steps 2 and 1 share a "/":
\* /* End PBXContainerItemProxy section */* End PBXBuildFile section */
Overlapping == [kind |-> "overlapping", step |-> 2]

TwiceSteps == {6, 7, 11}

Deviations ==
  {Missing(k) : k \in StepIds} \cup {Twice(k) : k \in TwiceSteps}
    \cup {Preexisting, Overlapping}

RECURSIVE DeviationSets(_)
DeviationSets(n) ==
  IF n = 0 THEN {{}}
  ELSE LET P == DeviationSets(n - 1)
       IN  P \cup {S \cup {d} : S \in P, d \in Deviations}

Times(D, k) ==
  IF Missing(k) \in D THEN 0 ELSE IF Twice(k) \in D THEN 2 ELSE 1

Rep(s, n) == IF n = 0 THEN <<>> ELSE IF n = 1 THEN s ELSE s \o s

Line(s) == <<s, NL>>

Begin(inner) == Marker(inner) \o <<NL>>

End(D, k) == Rep(Steps[k].old \o <<NL>>, Times(D, k)) \o <<NL>>

Fused(D) == Overlapping \in D /\ Times(D, 1) = 1 /\ Times(D, 2) = 1

FirstSections(D) ==
  IF Fused(D)
  THEN Begin("* Begin PBXBuildFile section *")
         \o Begin("* Begin PBXContainerItemProxy section *")
         \o <<"/", "* End PBXContainerItemProxy section *",
              "/", "* End PBXBuildFile section *", "/", NL, NL>>
  ELSE Begin("* Begin PBXBuildFile section *") \o End(D, 1)
         \o Begin("* Begin PBXContainerItemProxy section *") \o End(D, 2)

GroupTail(name) ==
  <<NL>> \o Line(name) \o Line("\t\t\tsourceTree = \"<group>\";") \o Line("\t\t};")

TargetTail ==
  <<NL>> \o Line("\t\t\tname = \"ehviewer apple\";")
    \o Line("\t\t\tproductType = \"com.apple.product-type.application\";")
    \o Line("\t\t};")

ProjectRecord(D) ==
  <<"\t\t", ID_PROJECT, " /* Project object */ = {", NL>>
    \o Line("\t\t\tisa = PBXProject;")
    \o Line("\t\t\tattributes = {")
    \o Line("\t\t\t\tTargetAttributes = {")
    \o Rep(old_attrs \o <<NL>>, Times(D, 11))
    \o Line("\t\t\t\t};")
    \o Line("\t\t\t};")
    \o <<"\t\t\tmainGroup = ", ID_MAIN_GROUP, ";", NL>>
    \o Rep(old_targets \o <<NL>>, Times(D, 10))
    \o Line("\t\t};")

Fixture(D) ==
  Line("// !$*UTF8*$!") \o Line("{") \o Line("\tobjects = {") \o <<NL>>
    \o FirstSections(D)
    \o Rep(Steps[3].old \o <<NL>>, Times(D, 3)) \o End(D, 4)
    \o Begin("* Begin PBXFileSystemSynchronizedRootGroup section *") \o End(D, 5)
    \o Begin("* Begin PBXFrameworksBuildPhase section *")
    \o (IF Preexisting \in D THEN fw_phase ELSE <<>>) \o End(D, 6)
    \o Begin("* Begin PBXGroup section *")
    \o Rep(old_products \o GroupTail("\t\t\tname = Products;"), Times(D, 7))
    \o Rep(old_root \o GroupTail("\t\t\tpath = \"\";"), Times(D, 8))
    \o Marker("* End PBXGroup section *") \o <<NL, NL>>
    \o Begin("* Begin PBXNativeTarget section *")
    \o Rep(old_app_phases \o TargetTail, Times(D, 12)) \o End(D, 9)
    \o Begin("* Begin PBXProject section *") \o ProjectRecord(D)
    \o Marker("* End PBXProject section *") \o <<NL, NL>>
    \o Begin("* Begin PBXResourcesBuildPhase section *") \o End(D, 13)
    \o Begin("* Begin PBXSourcesBuildPhase section *") \o End(D, 14)
    \o Begin("* Begin PBXTargetDependency section *") \o End(D, 15)
    \o Begin("* Begin XCBuildConfiguration section *") \o End(D, 16)
    \o Begin("* Begin XCConfigurationList section *") \o End(D, 17)
    \o Line("\t};")
    \o <<"\trootObject = ", ID_PROJECT, " /* Project object */;", NL>>
    \o Line("}")

\* written order with the steps at indexes a and b exchanged
Swap(a, b) ==
  [k \in StepIds |-> IF k = a THEN b ELSE IF k = b THEN a ELSE k]

Orders == {Swap(a, b) : a \in StepIds, b \in StepIds}

\* the files the script is run on
Inputs == {Fixture(D) : D \in DeviationSets(MaxDeviations)}

\* the files on which the steps are also run in another order
ReorderedInputs == {Fixture({}), Fixture({Overlapping})}

(***************************************************************************)
(* The script, one action per statement.                                   *)
(***************************************************************************)
\* the file when the current invocation started
file0 == hist[run]

Start ==
  /\ content = <<>>
  /\ pc = "read"
  /\ i = 1
  /\ stdout = <<>>
  /\ stderr = <<>>
  /\ run = 1
  /\ hist = <<file>>
  /\ found = {}
  /\ relied = {}

Init ==
  /\ file \in Inputs
  /\ order = WrittenOrder
  /\ Start

\* a variant of the script with two of its steps exchanged
InitReordered ==
  /\ file \in ReorderedInputs
  /\ order \in Orders
  /\ Start

\* with open(PBXPROJ_PATH, 'r') as f: content = f.read()
Read ==
  /\ pc = "read"
  /\ content' = file
  /\ pc' = "patch"
  /\ UNCHANGED <<file, i, order, stdout, stderr, run, hist, found, relied>>

\* open(..., 'r') raises OSError: the interpreter reports it and exits
ReadFail ==
  /\ pc = "read"
  /\ pc' = "crashed"
  /\ stderr' = Append(stderr, "OSError")
  /\ UNCHANGED <<file, content, i, order, stdout, run, hist, found, relied>>

\* a slip: the arguments of replace exchanged
ApplySwapped(doc, k) == str_replace(doc, Steps[k].new, Steps[k].old)

\* content = content.replace(old, new): silent when old does not occur
Apply(doc, k) == str_replace(doc, Steps[k].old, Steps[k].new)

AfterStep(n) == IF n = NSteps THEN "open" ELSE "patch"

\* a hardened variant: a search text that does not occur is an error
SubstituteStrict(k) ==
  /\ pc = "patch"
  /\ order[i] = k
  /\ IF str_count(content, Steps[k].old) = 0
     THEN /\ pc' = "crashed"
          /\ stderr' = Append(stderr, "anchor not found")
          /\ UNCHANGED <<content, i, found, relied>>
     ELSE /\ content' = Apply(content, k)
          /\ found' = found \cup {k}
          /\ relied' = relied
          /\ pc' = AfterStep(i)
          /\ i' = IF i = NSteps THEN i ELSE i + 1
          /\ UNCHANGED stderr
  /\ UNCHANGED <<file, order, stdout, run, hist>>

Substitute(k) ==
  /\ pc = "patch"
  /\ order[i] = k
  /\ content' = Apply(content, k)
  /\ found' = IF str_count(content, Steps[k].old) > 0 THEN found \cup {k} ELSE found
  /\ relied' = IF str_count(content, Steps[k].old) > str_count(file0, Steps[k].old)
               THEN relied \cup {k} ELSE relied
  /\ pc' = AfterStep(i)
  /\ i' = IF i = NSteps THEN i ELSE i + 1
  /\ UNCHANGED <<file, order, stdout, stderr, run, hist>>

Step1 == Substitute(1)
Step2 == Substitute(2)
Step3 == Substitute(3)
Step4 == Substitute(4)
Step5 == Substitute(5)
Step6 == Substitute(6)
Step7Products == Substitute(7)
Step7Root == Substitute(8)
Step8 == Substitute(9)
Step9Targets == Substitute(10)
Step9Attributes == Substitute(11)
Step9AppPhases == Substitute(12)
Step10 == Substitute(13)
Step11 == Substitute(14)
Step12 == Substitute(15)
Step13 == Substitute(16)
Step14 == Substitute(17)

\* open(PBXPROJ_PATH, 'w') truncates the file
OpenWrite ==
  /\ pc = "open"
  /\ file' = <<>>
  /\ pc' = "write"
  /\ UNCHANGED <<content, i, order, stdout, stderr, run, hist, found, relied>>

\* open(..., 'w') raises OSError (not writable): nothing is truncated
OpenWriteFail ==
  /\ pc = "open"
  /\ pc' = "crashed"
  /\ stderr' = Append(stderr, "OSError")
  /\ UNCHANGED <<file, content, i, order, stdout, run, hist, found, relied>>

\* f.write(content) and the close at the end of the with block
Write ==
  /\ pc = "write"
  /\ file' = content
  /\ pc' = "print"
  /\ UNCHANGED <<content, i, order, stdout, stderr, run, hist, found, relied>>

\* the write or the flush at close raises OSError (disk full, I/O error)
\* after a prefix of the text reached the file
WriteFail ==
  /\ pc = "write"
  /\ \E n \in 0..(MaxPartial - 1) :
       /\ n < Len(content)
       /\ file' = SubSeq(content, 1, n)
  /\ pc' = "crashed"
  /\ stderr' = Append(stderr, "OSError")
  /\ UNCHANGED <<content, i, order, stdout, run, hist, found, relied>>

\* print("... Successfully added EhDownloadWidget extension target ...")
PrintSuccess ==
  /\ pc = "print"
  /\ stdout' = Append(stdout, SuccessLine)
  /\ pc' = "done"
  /\ UNCHANGED <<file, content, i, order, stderr, run, hist, found, relied>>

\* the script is invoked again on the file it wrote
Rerun ==
  /\ pc = "done"
  /\ run < MaxRuns
  /\ run' = run + 1
  /\ pc' = "read"
  /\ i' = 1
  /\ content' = <<>>
  /\ hist' = Append(hist, file)
  /\ found' = {}
  /\ relied' = {}
  /\ UNCHANGED <<file, order, stdout, stderr>>

Next ==
  \/ Read \/ ReadFail
  \/ Step1 \/ Step2 \/ Step3 \/ Step4 \/ Step5 \/ Step6
  \/ Step7Products \/ Step7Root \/ Step8
  \/ Step9Targets \/ Step9Attributes \/ Step9AppPhases
  \/ Step10 \/ Step11 \/ Step12 \/ Step13 \/ Step14
  \/ OpenWrite \/ OpenWriteFail \/ Write \/ WriteFail
  \/ PrintSuccess \/ Rerun

Spec == Init /\ [][Next]_vars

SpecReordered == InitReordered /\ [][Next]_vars

(***************************************************************************)
(* Vocabulary of the properties.                                           *)
(***************************************************************************)
\* the document the steps, run in the order ord, make of doc
RECURSIVE PatchFrom(_, _, _)
PatchFrom(doc, ord, n) ==
  IF n > NSteps THEN doc
  ELSE LET next == Apply(doc, ord[n])
       IN  \* the test makes TLC compute each step's text before the next step
           IF Len(next) >= 0 THEN PatchFrom(next, ord, n + 1) ELSE next

Patched(doc, ord) == PatchFrom(doc, ord, 1)

\* every search text (marker or old block) occurs exactly once
AllOnce(doc) == \A k \in StepIds : str_count(doc, Steps[k].old) = 1

Span(doc, k) ==
  UNION {p..(p + Len(Steps[k].old) - 1) : p \in Starts(doc, Steps[k].old)}

\* no two occurrences of different search texts share a symbol
NoOverlap(doc) ==
  \A j \in StepIds : \A k \in StepIds :
    j < k => Span(doc, j) \cap Span(doc, k) = {}

WellFormed(doc) == AllOnce(doc) /\ NoOverlap(doc)

\* the inserted blocks: the marker each is documented to precede, and the
\* text that follows it in the replacement the script builds
NewBlocks ==
  << [text |-> build_file_entry, anchor |-> EndBuildFile, next |-> EndBuildFile],
     [text |-> proxy_entry, anchor |-> EndContainerItemProxy, next |-> EndContainerItemProxy],
     [text |-> copy_phase, anchor |-> BeginFileReference, next |-> BeginFileReference],
     [text |-> file_ref, anchor |-> EndFileReference, next |-> EndFileReference],
     [text |-> sync_group, anchor |-> EndSynchronizedRootGroup, next |-> EndSynchronizedRootGroup],
     [text |-> fw_phase, anchor |-> EndFrameworksBuildPhase, next |-> EndFrameworksBuildPhase],
     [text |-> native_target, anchor |-> EndNativeTarget, next |-> EndNativeTarget],
     [text |-> res_phase, anchor |-> EndResourcesBuildPhase, next |-> EndResourcesBuildPhase],
     [text |-> src_phase, anchor |-> EndSourcesBuildPhase, next |-> EndSourcesBuildPhase],
     [text |-> dep_entry, anchor |-> EndTargetDependency, next |-> EndTargetDependency],
     [text |-> cfg_debug, anchor |-> EndBuildConfiguration, next |-> cfg_release \o EndBuildConfiguration],
     [text |-> cfg_release, anchor |-> EndBuildConfiguration, next |-> EndBuildConfiguration],
     [text |-> cfg_list, anchor |-> EndConfigurationList, next |-> EndConfigurationList] >>

BlockIds == 1..Len(NewBlocks)

NoNewBlocks(doc) == \A b \in BlockIds : str_count(doc, NewBlocks[b].text) = 0

NewIdList ==
  <<ID_TARGET, ID_PRODUCT_REF, ID_SYNC_GROUP, ID_FRAMEWORKS, ID_SOURCES,
    ID_RESOURCES, ID_EMBED_PHASE, ID_PROXY, ID_DEPENDENCY, ID_CFG_DEBUG,
    ID_CFG_RELEASE, ID_CFG_LIST, ID_EMBED_FILE>>

ExistingIdList == <<ID_PROJECT, ID_APP_TARGET, ID_PRODUCTS, ID_MAIN_GROUP>>

NewIds == {NewIdList[n] : n \in 1..Len(NewIdList)}

Distinct(s) == \A a \in 1..Len(s) : \A b \in 1..Len(s) : a < b => s[a] # s[b]

NoNewIds(doc) == \A p \in 1..Len(doc) : doc[p] \notin NewIds

\* a record "<two tabs>ID ... = {" at the start of a line defines ID
DefPositions(doc, id) ==
  {p \in 1..(Len(doc) - 1) :
     /\ doc[p] = "\t\t"
     /\ doc[p + 1] = id
     /\ (p = 1 \/ doc[p - 1] = NL)}

\* every other occurrence of ID refers to it
RefPositions(doc, id) ==
  {p \in 2..Len(doc) : doc[p] = id /\ (p - 1) \notin DefPositions(doc, id)}

Closed(doc) ==
  \A id \in NewIds : Cardinality(DefPositions(doc, id)) = 1

Dangling(doc) ==
  \E id \in NewIds : RefPositions(doc, id) # {} /\ DefPositions(doc, id) = {}

\* the only search text that does not occur in doc is that of step k
OnlyMissing(doc, k) ==
  \A j \in StepIds : str_count(doc, Steps[j].old) = (IF j = k THEN 0 ELSE 1)

\* the lines of a text (without their terminators)
RECURSIVE Lines(_)
Lines(doc) ==
  LET nl == {p \in 1..Len(doc) : doc[p] = NL}
  IN  IF nl = {} THEN <<doc>>
      ELSE <<SubSeq(doc, 1, Least(nl) - 1)>>
             \o Lines(SubSeq(doc, Least(nl) + 1, Len(doc)))

RECURSIVE SumDelta(_)
SumDelta(S) ==
  IF S = {} THEN 0
  ELSE LET k == Least(S)
       IN  ByteLen(Steps[k].new) - ByteLen(Steps[k].old) + SumDelta(S \ {k})

FirstRunDone == pc = "done" /\ run = 1 /\ order = WrittenOrder

(***************************************************************************)
(* C1                                                                      *)
(***************************************************************************)
\* C1 as stated: after one run on an input holding every search text exactly
\* once, each new block occurs exactly once and stands immediately before its
\* documented marker.  (Taken on the plainest such inputs: the search texts
\* do not overlap and no new block is there beforehand.)
C1_AsStated ==
  (FirstRunDone /\ WellFormed(file0) /\ NoNewBlocks(file0)) =>
    \A b \in BlockIds :
      /\ str_count(file, NewBlocks[b].text) = 1
      /\ str_count(file, NewBlocks[b].text \o NewBlocks[b].anchor) = 1

\* C1 amended: on an input holding every search text exactly once, without
\* overlap, and none of the new blocks, each of the thirteen new blocks occurs
\* exactly once after the run, immediately before its marker -- except the
\* Debug configuration, which stands immediately before the Release
\* configuration, itself immediately before the marker.
C1_EachBlockOnceBeforeItsAnchor ==
  (FirstRunDone /\ WellFormed(file0) /\ NoNewBlocks(file0)) =>
    \A b \in BlockIds :
      /\ str_count(file, NewBlocks[b].text) = 1
      /\ str_count(file, NewBlocks[b].text \o NewBlocks[b].next) = 1

C1_Witness ==
  /\ FirstRunDone /\ WellFormed(file0) /\ NoNewBlocks(file0)
  /\ str_count(file, cfg_debug \o cfg_release \o EndBuildConfiguration) = 1

(***************************************************************************)
(* C2                                                                      *)
(***************************************************************************)
SecondRunDone ==
  /\ pc = "done" /\ run = 2 /\ order = WrittenOrder
  /\ WellFormed(hist[1]) /\ NoNewBlocks(hist[1])

\* the part of new_attrs that follows old_attrs
WidgetAttributes == SubSeq(new_attrs, Len(old_attrs) + 1, Len(new_attrs))

\* C2 as stated: the second run on the output of a first run is not the
\* identity; every marker insertion inserts its block again and every
\* whole-block replacement finds nothing.
C2_AsStated ==
  SecondRunDone =>
    /\ file # hist[2]
    /\ InsertSteps \subseteq found
    /\ ReplaceSteps \cap found = {}

\* C2 amended: on the second run every marker insertion inserts its block
\* again; the Products group, root group, targets list and host app target
\* replacements find nothing; the TargetAttributes replacement matches again
\* (its new text begins with its old text) and adds the widget's entry a
\* second time.
C2_SecondRunDuplicates ==
  SecondRunDone =>
    /\ file # hist[2]
    /\ found = InsertSteps \cup {11}
    /\ \A b \in BlockIds : str_count(file, NewBlocks[b].text) = 2
    /\ \A k \in ReplaceSteps \ {11} :
         /\ str_count(hist[2], Steps[k].old) = 0
         /\ str_count(file, Steps[k].new) = 1
    /\ str_count(hist[2], old_attrs) = 1
    /\ str_count(file, WidgetAttributes) = 2

C2_Witness == SecondRunDone /\ 11 \in found /\ 7 \notin found

(***************************************************************************)
(* C3, C4, C5                                                              *)
(***************************************************************************)
SomeMissing(doc) == \E k \in StepIds : str_count(doc, Steps[k].old) = 0

\* C3: when a search text is absent from the input, the run ends with the
\* file byte for byte equal to the file it started from.
C3_FileUntouchedWhenAnchorMissing ==
  (pc = "done" /\ SomeMissing(file0)) => file = file0

\* C4: the success line is printed only by a run in which every step found
\* its search text.
C4_SuccessOnlyWhenAllFound ==
  pc = "done" => found = StepIds

\* C5: after an I/O error the file holds the complete original or the
\* complete patched text, never a truncated or partial one.
C5_NoPartialOutput ==
  pc = "crashed" => (file = file0 \/ file = Patched(file0, order))

(***************************************************************************)
(* C6                                                                      *)
(***************************************************************************)
\* C6 as stated: the length grows by the lengths of the inserted blocks plus
\* the deltas of the Products group, root group and host app target
\* replacements, and by nothing else.  (Taken on the plainest inputs holding
\* every search text exactly once: the search texts do not overlap.)
C6_AsStated ==
  (FirstRunDone /\ WellFormed(file0)) =>
    ByteLen(file) - ByteLen(file0) = SumDelta(InsertSteps \cup {7, 8, 12})

\* C6 amended: the length grows by the lengths of the inserted blocks plus
\* the deltas of all five whole-block replacements (the targets list and the
\* TargetAttributes map too), on inputs whose search texts do not overlap.
C6_LengthGrowsByAllDeltas ==
  (FirstRunDone /\ WellFormed(file0)) =>
    ByteLen(file) - ByteLen(file0) = SumDelta(StepIds)

C6_Witness ==
  /\ FirstRunDone /\ WellFormed(file0)
  /\ ByteLen(file) > ByteLen(file0) + SumDelta(InsertSteps \cup {7, 8, 12})

(***************************************************************************)
(* C7                                                                      *)
(***************************************************************************)
AppexChild == <<"\t\t", "\t\t", ID_PRODUCT_REF, " /* EhDownloadWidget.appex */,">>

\* C7: where the Products group was replaced, the new block is the old block
\* with its lines unchanged and in order, plus one line, the appex child,
\* after the last child and before the closing ");".
C7_ProductsSuperset ==
  (pc = "done" /\ 7 \in found) =>
    LET o == Lines(old_products)
        n == Lines(new_products)
    IN  /\ Len(n) = Len(o) + 1
        /\ SubSeq(n, 1, Len(o) - 1) = SubSeq(o, 1, Len(o) - 1)
        /\ n[Len(o)] = AppexChild
        /\ n[Len(n)] = o[Len(o)]
        /\ o[Len(o)] = <<"\t\t\t);">>
        /\ str_count(file, new_products) >= 1
        /\ str_count(file, old_products) = 0

C7_Witness ==
  pc = "done" /\ 7 \in found /\ str_count(file, new_products) = 1

(***************************************************************************)
(* C8                                                                      *)
(***************************************************************************)
BlockSteps == {7, 8, 12}

\* what step k puts into the document
Inserted(k) ==
  IF k \in ReplaceSteps THEN Steps[k].new
  ELSE SubSeq(Steps[k].new, 1, Len(Steps[k].new) - Len(Steps[k].old))

\* C8: a whole-block replacement (Products group, root group, host app
\* target) whose old block does not occur leaves the document as it is and
\* reports nothing; the run goes on, the other steps make their edits, and
\* the partially patched text is written to the file.
C8_SilentNoOp ==
  /\ [][\A k \in BlockSteps :
          (pc = "patch" /\ order[i] = k /\ str_count(content, Steps[k].old) = 0)
            => /\ content' = content
               /\ pc' = AfterStep(i)
               /\ stdout' = stdout
               /\ stderr' = stderr]_vars
  /\ [](\A k \in BlockSteps :
          (pc = "done" /\ k \notin found) =>
             /\ file = content
             /\ stderr = <<>>
             /\ \A j \in found : str_count(file, Inserted(j)) >= 1)

C8_Witness ==
  /\ pc = "done" /\ run = 1 /\ 7 \notin found /\ found = StepIds \ {7}
  /\ file = content /\ file # file0
  /\ str_count(file, new_root) = 1

====
